---- MODULE Spec2Model ----
(***************************************************************************)
(* A model of logo/generate_app_icons.py: the SVG path-data parser         *)
(* (parse_svg_path, parse_path_to_points), the two rendering passes        *)
(* (create_kuil_icon_image, create_tinted_icon) and the script's main.     *)
(*                                                                         *)
(* Text is a sequence of one-character strings.  A number is an exact      *)
(* rational held as an integer numerator over Unit: the operands the       *)
(* parser reads are decimal literals and the Bezier samples are taken at   *)
(* multiples of 1/4, so every value the parser computes from literals of   *)
(* at most FracDigits fractional digits is a multiple of                   *)
(* 1/(4*4*4*10^FracDigits) and Python's floats hold the same values for    *)
(* the magnitudes modelled here.  A transformed coordinate x*scale+offset  *)
(* with scale = sn/sd is held as the numerator over Unit*sd.               *)
(***************************************************************************)
EXTENDS Integers, Sequences, FiniteSets, TLC

VARIABLES
    \* one call of parse_path_to_points
    path_data, scale, offset_x, offset_y,   \* the arguments
    pc,                                     \* "call", "loop", "returned", "raised", "idle"
    commands, k,                            \* re.findall's result, the for loop's position
    points, current_x, current_y,           \* the locals
    result, error,                          \* the return value (None until returned), the exception
    \* one run of main
    svg_file,                               \* the text at SVG_PATH, or Missing
    stdout_encodes,                         \* whether stdout's encoding holds the prints' emoji
    mpc,                                    \* main's position
    written,                                \* the files the run has created, in order
    files,                                  \* what each holds, and whether it holds all of it
    light_icon, dark_icon, tinted_icon,     \* main's locals
    merror                                  \* the exception that ended main, or "none"

pvars == <<path_data, scale, offset_x, offset_y, pc, commands, k,
           points, current_x, current_y, result, error>>
mvars == <<svg_file, stdout_encodes, mpc, written, files, light_icon, dark_icon, tinted_icon,
           merror>>
vars == <<pvars, mvars>>

\* ------------------------------------------------------------------ bounds

\* The most command groups a generated path-data string is built from.
MaxGroups == 3
\* The most fractional digits of a literal the fixed-point numbers hold exactly.
FracDigits == 1
\* The most attributes a generated SVG document holds.
MaxAttrs == 2

\* ------------------------------------------------------------------ numbers

RECURSIVE Pow10(_)
Pow10(n) == IF n = 0 THEN 1 ELSE 10 * Pow10(n - 1)

\* The denominator of the cubic blending weights at t in {1/4, 2/4, 3/4, 4/4}.
SampleDen == 4 * 4 * 4
\* Every number is an integer count of 1/Unit.
Unit == SampleDen * Pow10(FracDigits)

\* Python's None: no sequence of characters.
None == <<"None">>

Digits == {"0", "1", "2", "3", "4", "5", "6", "7", "8", "9"}

DigitVal(c) ==
    CASE c = "0" -> 0 [] c = "1" -> 1 [] c = "2" -> 2 [] c = "3" -> 3 [] c = "4" -> 4
      [] c = "5" -> 5 [] c = "6" -> 6 [] c = "7" -> 7 [] c = "8" -> 8 [] c = "9" -> 9

\* The value of a run of decimal digits.
RECURSIVE DigitsVal(_)
DigitsVal(ds) ==
    IF ds = <<>> THEN 0
    ELSE 10 * DigitsVal(SubSeq(ds, 1, Len(ds) - 1)) + DigitVal(ds[Len(ds)])

\* The end of the run of digits that starts at position i of s (i - 1 when s[i] is no digit).
RECURSIVE DigitRunEnd(_, _)
DigitRunEnd(s, i) ==
    IF i <= Len(s) /\ s[i] \in Digits THEN DigitRunEnd(s, i + 1) ELSE i - 1

\* float(n) for a literal n matched by -?\d+\.?\d*, in units of 1/Unit: exact for a
\* literal of at most FracDigits fractional digits ("7", "7.", "-2.5").
Float(lit) ==
    LET neg == lit[1] = "-"
        body == IF neg THEN SubSeq(lit, 2, Len(lit)) ELSE lit
        ie == DigitRunEnd(body, 1)
        ipart == DigitsVal(SubSeq(body, 1, ie))
        frac == IF ie < Len(body) THEN SubSeq(body, ie + 2, Len(body)) ELSE <<>>
        mag == ipart * Unit + (DigitsVal(frac) * Unit) \div Pow10(Len(frac))
    IN IF neg THEN 0 - mag ELSE mag

\* ------------------------------------------------------------------ re.findall

CommandLetters == {"M", "L", "C", "Z", "m", "l", "c", "z"}

\* str.upper on a command letter.
Upper(c) ==
    CASE c = "m" -> "M" [] c = "l" -> "L" [] c = "c" -> "C" [] c = "z" -> "Z"
      [] c = "h" -> "H" [] c = "v" -> "V" [] OTHER -> c

\* The end of the run [^MLCZ]* (ignoring case) that starts at position i of s.
RECURSIVE ArgsEnd(_, _)
ArgsEnd(s, i) ==
    IF i <= Len(s) /\ s[i] \notin CommandLetters THEN ArgsEnd(s, i + 1) ELSE i - 1

\* re.findall(r'([MLCZ])([^MLCZ]*)', s, re.IGNORECASE) from position i on.
RECURSIVE FindCommandsFrom(_, _)
FindCommandsFrom(s, i) ==
    IF i > Len(s) THEN <<>>
    ELSE IF s[i] \in CommandLetters
         THEN LET e == ArgsEnd(s, i + 1)
              IN <<[cmd |-> s[i], args |-> SubSeq(s, i + 1, e)]>> \o FindCommandsFrom(s, e + 1)
         ELSE FindCommandsFrom(s, i + 1)

FindAllCommands(s) == FindCommandsFrom(s, 1)

\* The end of the match of -?\d+\.?\d* at position i of s, or 0 when there is none.
NumberMatchEnd(s, i) ==
    LET d == IF s[i] = "-" THEN i + 1 ELSE i
        ie == DigitRunEnd(s, d)
    IN IF ie < d THEN 0
       ELSE IF ie + 1 <= Len(s) /\ s[ie + 1] = "." THEN DigitRunEnd(s, ie + 2)
            ELSE ie

\* re.findall(r'-?\d+\.?\d*', s) from position i on.
RECURSIVE FindNumbersFrom(_, _)
FindNumbersFrom(s, i) ==
    IF i > Len(s) THEN <<>>
    ELSE LET e == NumberMatchEnd(s, i)
         IN IF e = 0 THEN FindNumbersFrom(s, i + 1)
            ELSE <<SubSeq(s, i, e)>> \o FindNumbersFrom(s, e + 1)

\* numbers = [float(n) for n in re.findall(r'-?\d+\.?\d*', args)]
Numbers(args) ==
    LET lits == FindNumbersFrom(args, 1)
    IN [j \in 1..Len(lits) |-> Float(lits[j])]

\* ------------------------------------------------------------------ geometry

\* v * scale + offset for v in units of 1/Unit: the numerator over Unit * scale[2].
Transform(v, sc, off) == v * sc[1] + off * Unit * sc[2]

\* (current_x * scale + offset_x, current_y * scale + offset_y)
TransformPoint(x, y, sc, ox, oy) == <<Transform(x, sc, ox), Transform(y, sc, oy)>>

\* The blending formula with the two inner weights exchanged.
MutBezier(q, p0, p1, p2, p3) ==
    LET mq == 4 - q
    IN (mq * mq * mq * p0 + 3 * mq * q * q * p1 + 3 * mq * mq * q * p2 + q * q * q * p3)
           \div SampleDen

\* mt**3 * p0 + 3*mt**2*t*p1 + 3*mt*t**2*p2 + t**3*p3 at t = q/4.
Bezier(q, p0, p1, p2, p3) ==
    LET mq == 4 - q
    IN (mq * mq * mq * p0 + 3 * mq * mq * q * p1 + 3 * mq * q * q * p2 + q * q * q * p3)
           \div SampleDen

\* for t in [0.25, 0.5, 0.75, 1.0]: the sample parameters, in quarters.
SampleQuarters == <<1, 2, 3, 4>>

\* The samples appended as computed, without scale and offset.
MutSegmentPoints(cx, cy, n, i, sc, ox, oy) ==
    [j \in 1..Len(SampleQuarters) |->
        <<Bezier(SampleQuarters[j], cx, n[i + 1], n[i + 3], n[i + 5]),
          Bezier(SampleQuarters[j], cy, n[i + 2], n[i + 4], n[i + 6])>>]

\* The four points one cubic segment appends.
SegmentPoints(cx, cy, n, i, sc, ox, oy) ==
    [j \in 1..Len(SampleQuarters) |->
        TransformPoint(Bezier(SampleQuarters[j], cx, n[i + 1], n[i + 3], n[i + 5]),
                       Bezier(SampleQuarters[j], cy, n[i + 2], n[i + 4], n[i + 6]),
                       sc, ox, oy)]

\* The locals of parse_path_to_points that a command changes.
Locals(pts, cx, cy, err) == [points |-> pts, current_x |-> cx, current_y |-> cy, error |-> err]

\* MoveTo that only moves the cursor and records no point.
MutMoveTo(st, n, sc, ox, oy) ==
    IF Len(n) < 2 THEN [st EXCEPT !.error = "IndexError"]
    ELSE Locals(st.points, n[1], n[2], "none")

\* if cmd == 'M': numbers[0], numbers[1] (an IndexError when there are fewer than two).
MoveTo(st, n, sc, ox, oy) ==
    IF Len(n) < 2 THEN [st EXCEPT !.error = "IndexError"]
    ELSE Locals(Append(st.points, TransformPoint(n[1], n[2], sc, ox, oy)), n[1], n[2], "none")

\* The loop over range(0, len(numbers) - 1, 2): a trailing odd operand is dropped.
RECURSIVE MutLineTo(_, _, _, _, _, _)
MutLineTo(st, n, i, sc, ox, oy) ==
    IF i + 1 >= Len(n) THEN st
    ELSE MutLineTo(Locals(Append(st.points, TransformPoint(n[i + 1], n[i + 2], sc, ox, oy)),
                          n[i + 1], n[i + 2], "none"),
                   n, i + 2, sc, ox, oy)

\* elif cmd == 'L': for i in range(0, len(numbers), 2), from the 0-based i on.
RECURSIVE LineTo(_, _, _, _, _, _)
LineTo(st, n, i, sc, ox, oy) ==
    IF i >= Len(n) THEN st
    ELSE IF i + 1 >= Len(n) THEN [st EXCEPT !.error = "IndexError"]
    ELSE LineTo(Locals(Append(st.points, TransformPoint(n[i + 1], n[i + 2], sc, ox, oy)),
                       n[i + 1], n[i + 2], "none"),
                n, i + 2, sc, ox, oy)

\* elif cmd == 'C': for i in range(0, len(numbers), 6): if i + 5 < len(numbers).
RECURSIVE CurveTo(_, _, _, _, _, _)
CurveTo(st, n, i, sc, ox, oy) ==
    IF i >= Len(n) THEN st
    ELSE IF i + 5 < Len(n)
         THEN CurveTo(Locals(st.points \o SegmentPoints(st.current_x, st.current_y, n, i, sc, ox, oy),
                             n[i + 5], n[i + 6], "none"),
                      n, i + 6, sc, ox, oy)
         ELSE CurveTo(st, n, i + 6, sc, ox, oy)

\* elif cmd == 'H': for x in numbers.
RECURSIVE HorizontalTo(_, _, _, _, _, _)
HorizontalTo(st, n, i, sc, ox, oy) ==
    IF i >= Len(n) THEN st
    ELSE HorizontalTo(Locals(Append(st.points, TransformPoint(n[i + 1], st.current_y, sc, ox, oy)),
                             n[i + 1], st.current_y, "none"),
                      n, i + 1, sc, ox, oy)

\* elif cmd == 'V': for y in numbers.
RECURSIVE VerticalTo(_, _, _, _, _, _)
VerticalTo(st, n, i, sc, ox, oy) ==
    IF i >= Len(n) THEN st
    ELSE VerticalTo(Locals(Append(st.points, TransformPoint(st.current_x, n[i + 1], sc, ox, oy)),
                           st.current_x, n[i + 1], "none"),
                    n, i + 1, sc, ox, oy)

\* ClosePath that repeats the last point: points.append(points[-1]).
MutClosePath(st) ==
    IF st.points # <<>> THEN [st EXCEPT !.points = Append(st.points, st.points[Len(st.points)])]
    ELSE st

\* ClosePath without the "if points" guard: points[0] of an empty list raises.
MutClosePathUnguarded(st) ==
    IF st.points # <<>> THEN [st EXCEPT !.points = Append(st.points, st.points[1])]
    ELSE [st EXCEPT !.error = "IndexError"]

\* elif cmd == 'Z': if points: points.append(points[0])
ClosePath(st) ==
    IF st.points # <<>> THEN [st EXCEPT !.points = Append(st.points, st.points[1])] ELSE st

\* One iteration of "for cmd, args in commands".
ApplyCommand(st, c, sc, ox, oy) ==
    LET cmd == Upper(c.cmd)
        n == Numbers(c.args)
    IN CASE cmd = "M" -> MoveTo(st, n, sc, ox, oy)
         [] cmd = "L" -> LineTo(st, n, 0, sc, ox, oy)
         [] cmd = "C" -> CurveTo(st, n, 0, sc, ox, oy)
         [] cmd = "H" -> HorizontalTo(st, n, 0, sc, ox, oy)
         [] cmd = "V" -> VerticalTo(st, n, 0, sc, ox, oy)
         [] cmd = "Z" -> ClosePath(st)
         [] OTHER -> st

\* The for loop from command j on; it stops at the first exception.
RECURSIVE RunCommands(_, _, _, _, _, _)
RunCommands(st, cs, j, sc, ox, oy) ==
    IF j > Len(cs) \/ st.error # "none" THEN st
    ELSE RunCommands(ApplyCommand(st, cs[j], sc, ox, oy), cs, j + 1, sc, ox, oy)

\* parse_path_to_points as a function: the polygon and the exception ("none": it returned).
ParsePathToPoints(p, sc, ox, oy) ==
    IF p = None THEN [points |-> <<>>, error |-> "TypeError"]
    ELSE LET st == RunCommands(Locals(<<>>, 0, 0, "none"), FindAllCommands(p), 1, sc, ox, oy)
         IN [points |-> st.points, error |-> st.error]

\* ------------------------------------------------------------------ inputs

\* The command groups generated path data is built from: "M0,0", "M5", "M2.5 -4 7",
\* "L10,0", "L10,10", "L5", "C0,10 10,10 10,0", "C1,2", "Z", "z", "H10", "Q5,5 7,7".
GroupTexts ==
    { <<"M", "0", ",", "0">>,
      <<"M", "5">>,
      <<"M", "2", ".", "5", " ", "-", "4", " ", "7">>,
      <<"L", "1", "0", ",", "0">>,
      <<"L", "1", "0", ",", "1", "0">>,
      <<"L", "5">>,
      <<"C", "0", ",", "1", "0", " ", "1", "0", ",", "1", "0", " ", "1", "0", ",", "0">>,
      <<"C", "1", ",", "2">>,
      <<"Z">>,
      <<"z">>,
      <<"H", "1", "0">>,
      <<"Q", "5", ",", "5", " ", "7", ",", "7">> }

\* The path data made of exactly n groups, separated by one space.
RECURSIVE PathsOf(_)
PathsOf(n) ==
    IF n = 0 THEN {<<>>}
    ELSE {IF p = <<>> THEN g ELSE g \o <<" ">> \o p : g \in GroupTexts, p \in PathsOf(n - 1)}

GeneratedPaths == UNION {PathsOf(n) : n \in 0..MaxGroups}

\* "M0,0 C0,10 10,10 10,0"
CubicPath ==
    <<"M", "0", ",", "0", " ",
      "C", "0", ",", "1", "0", " ", "1", "0", ",", "1", "0", " ", "1", "0", ",", "0">>
\* "M0,0 L10,0 L10,10 Z"
TrianglePath ==
    <<"M", "0", ",", "0", " ", "L", "1", "0", ",", "0", " ",
      "L", "1", "0", ",", "1", "0", " ", "Z">>
\* "M0,0 H10 V10"
HVPath == <<"M", "0", ",", "0", " ", "H", "1", "0", " ", "V", "1", "0">>
\* "M0,0 L10,0 Q5,5 7,7 L10,10 Z"
QuadPath ==
    <<"M", "0", ",", "0", " ", "L", "1", "0", ",", "0", " ",
      "Q", "5", ",", "5", " ", "7", ",", "7", " ",
      "L", "1", "0", ",", "1", "0", " ", "Z">>
\* "m0,0 l10,0 l10,10 z"
LowerPath ==
    <<"m", "0", ",", "0", " ", "l", "1", "0", ",", "0", " ",
      "l", "1", "0", ",", "1", "0", " ", "z">>

\* "M0,0 L10,10 C0,10 10,10 10,0 Z"
CurvedPath ==
    <<"M", "0", ",", "0", " ", "L", "1", "0", ",", "1", "0", " ",
      "C", "0", ",", "1", "0", " ", "1", "0", ",", "1", "0", " ", "1", "0", ",", "0", " ", "Z">>

ExamplePaths == {CubicPath, TrianglePath, HVPath, QuadPath, LowerPath, CurvedPath}

PathInputs == GeneratedPaths \cup ExamplePaths

\* The (scale, offset_x, offset_y) a call is made with; a scale is <<numerator, denominator>>.
Identity == <<<<1, 1>>, 0, 0>>
TransformInputs == {Identity, <<<<2, 1>>, 5, 5>>, <<<<3, 2>>, 0 - 4, 7>>}

\* ------------------------------------------------------------------ parse_path_to_points, step by step

MainIdle ==
    /\ svg_file = None
    /\ stdout_encodes = TRUE
    /\ mpc = "idle"
    /\ written = <<>>
    /\ files = <<>>
    /\ light_icon = None
    /\ dark_icon = None
    /\ tinted_icon = None
    /\ merror = "none"

\* points = []; current_x, current_y = 0, 0
Init ==
    /\ path_data \in PathInputs
    /\ \E t \in TransformInputs : scale = t[1] /\ offset_x = t[2] /\ offset_y = t[3]
    /\ pc = "call"
    /\ commands = <<>>
    /\ k = 0
    /\ points = <<>>
    /\ current_x = 0
    /\ current_y = 0
    /\ result = None
    /\ error = "none"
    /\ MainIdle

\* commands = re.findall(r'([MLCZ])([^MLCZ]*)', path_data, re.IGNORECASE)
FindCommands ==
    /\ pc = "call"
    /\ commands' = FindAllCommands(path_data)
    /\ k' = 1
    /\ pc' = "loop"
    /\ UNCHANGED <<path_data, scale, offset_x, offset_y, points, current_x, current_y,
                   result, error, mvars>>

\* One iteration of the for loop; an IndexError leaves the function.
ProcessCommand ==
    /\ pc = "loop"
    /\ k <= Len(commands)
    /\ LET st == ApplyCommand(Locals(points, current_x, current_y, "none"), commands[k],
                              scale, offset_x, offset_y)
       IN /\ points' = st.points
          /\ current_x' = st.current_x
          /\ current_y' = st.current_y
          /\ error' = st.error
          /\ pc' = IF st.error # "none" THEN "raised" ELSE "loop"
          /\ k' = IF st.error # "none" THEN k ELSE k + 1
    /\ UNCHANGED <<path_data, scale, offset_x, offset_y, commands, result, mvars>>

\* return points
Return ==
    /\ pc = "loop"
    /\ k > Len(commands)
    /\ result' = points
    /\ pc' = "returned"
    /\ UNCHANGED <<path_data, scale, offset_x, offset_y, commands, k, points,
                   current_x, current_y, error, mvars>>

Next == FindCommands \/ ProcessCommand \/ Return

Spec == Init /\ [][Next]_vars

\* ------------------------------------------------------------------ the script

\* open(SVG_PATH) when there is no file.
Missing == <<"ENOENT">>

\* The end of the run [^"]* that starts at position i of s.
RECURSIVE QuoteFreeEnd(_, _)
QuoteFreeEnd(s, i) ==
    IF i <= Len(s) /\ s[i] # "\"" THEN QuoteFreeEnd(s, i + 1) ELSE i - 1

\* re.search(r'd="([^"]+)"', s) from position i on: group 1 of the leftmost match, or None.
RECURSIVE SearchPathFrom(_, _)
SearchPathFrom(s, i) ==
    IF i + 2 > Len(s) THEN None
    ELSE IF s[i] = "d" /\ s[i + 1] = "=" /\ s[i + 2] = "\""
         THEN LET e == QuoteFreeEnd(s, i + 3)
              IN IF e >= i + 3 /\ e < Len(s) THEN SubSeq(s, i + 3, e)
                 ELSE SearchPathFrom(s, i + 1)
         ELSE SearchPathFrom(s, i + 1)

parse_svg_path(svg_content) == SearchPathFrom(svg_content, 1)

KUIL_VIOLET_RGB == <<69, 64, 226>>
DARK_BG_RGB == <<45, 42, 158>>
White == <<255, 255, 255>>
IconSize == 1024
original_size == 1220
\* padding_percent = 0.15, in hundredths.
padding_percent == 15

\* padding = int(size * padding_percent)
Padding(size) == (size * padding_percent) \div 100
\* scale = icon_area / original_size, as <<numerator, denominator>>.
Scale(size) == <<size - 2 * Padding(size), original_size>>

\* Image.new('RGBA', (size, size), background), then draw.polygon(points, fill) when
\* len(points) >= 3.
Render(size, background, fill, pts) ==
    [size |-> <<size, size>>, background |-> background, fill |-> fill,
     polygon |-> IF Len(pts) >= 3 THEN pts ELSE <<>>]

\* A rendering pass: the image, or the exception that left it.
Pass(svg, size, background, fill) ==
    IF svg = Missing THEN [error |-> "FileNotFoundError", image |-> None]
    ELSE LET parsed == ParsePathToPoints(parse_svg_path(svg), Scale(size),
                                         Padding(size), Padding(size))
         IN IF parsed.error # "none" THEN [error |-> parsed.error, image |-> None]
            ELSE [error |-> "none", image |-> Render(size, background, fill, parsed.points)]

\* A pass that takes a document without path data for an empty path.
MutCreateKuilIconImage(svg, size, bg_color) ==
    IF svg = Missing THEN [error |-> "FileNotFoundError", image |-> None]
    ELSE LET found == parse_svg_path(svg)
             parsed == ParsePathToPoints(IF found = None THEN <<>> ELSE found, Scale(size),
                                         Padding(size), Padding(size))
         IN IF parsed.error # "none" THEN [error |-> parsed.error, image |-> None]
            ELSE [error |-> "none",
                  image |-> Render(size, Append(bg_color, 255), Append(White, 255), parsed.points)]

\* create_kuil_icon_image(size, bg_color) with icon_color = (255, 255, 255)
create_kuil_icon_image(svg, size, bg_color) ==
    Pass(svg, size, Append(bg_color, 255), Append(White, 255))

\* create_tinted_icon(size)
create_tinted_icon(svg, size) == Pass(svg, size, <<0, 0, 0, 0>>, <<255, 255, 255, 255>>)

\* contents_json: the image descriptors and the info block.
ContentsJson ==
    [images |-> <<[filename |-> "AppIcon.png", appearance |-> "any",
                   idiom |-> "universal", platform |-> "ios", size |-> "1024x1024"],
                  [filename |-> "AppIcon-Dark.png", appearance |-> "dark",
                   idiom |-> "universal", platform |-> "ios", size |-> "1024x1024"],
                  [filename |-> "AppIcon-Tinted.png", appearance |-> "tinted",
                   idiom |-> "universal", platform |-> "ios", size |-> "1024x1024"]>>,
     info |-> [author |-> "xcode", version |-> 1]]

\* The attributes generated SVG documents are built from: d="M0,0 L10,0 L10,10 Z",
\* d="M0,0 L10,0", d="M5", d="", id="c", x="1", and the unterminated d="Z.
AttrTexts ==
    { <<"d", "=", "\"">> \o TrianglePath \o <<"\"">>,
      <<"d", "=", "\"", "M", "0", ",", "0", " ", "L", "1", "0", ",", "0", "\"">>,
      <<"d", "=", "\"", "M", "5", "\"">>,
      <<"d", "=", "\"", "\"">>,
      <<"i", "d", "=", "\"", "c", "\"">>,
      <<"x", "=", "\"", "1", "\"">>,
      <<"d", "=", "\"", "Z">> }

\* The attribute lists of exactly n attributes, each preceded by a space.
RECURSIVE AttrsOf(_)
AttrsOf(n) ==
    IF n = 0 THEN {<<>>}
    ELSE {<<" ">> \o a \o rest : a \in AttrTexts, rest \in AttrsOf(n - 1)}

\* The documents <path ATTRS/>.
SvgDocuments ==
    {<<"<", "p", "a", "t", "h">> \o attrs \o <<"/", ">">> :
        attrs \in UNION {AttrsOf(n) : n \in 0..MaxAttrs}}

SvgInputs == {Missing} \cup SvgDocuments

ParseIdle ==
    /\ path_data = None
    /\ scale = <<1, 1>>
    /\ offset_x = 0
    /\ offset_y = 0
    /\ pc = "idle"
    /\ commands = <<>>
    /\ k = 0
    /\ points = <<>>
    /\ current_x = 0
    /\ current_y = 0
    /\ result = None
    /\ error = "none"

InitMain ==
    /\ svg_file \in SvgInputs
    /\ stdout_encodes \in BOOLEAN
    /\ mpc = "banner"
    /\ written = <<>>
    /\ files = <<>>
    /\ light_icon = None
    /\ dark_icon = None
    /\ tinted_icon = None
    /\ merror = "none"
    /\ ParseIdle

\* An unhandled exception leaves main.
Abort(exception) ==
    /\ mpc' = "aborted"
    /\ merror' = exception

\* print(...): a text with an emoji raises UnicodeEncodeError when stdout's encoding does
\* not hold it; any print raises OSError when stdout refuses the write.
Say(emoji, next) ==
    IF emoji /\ ~stdout_encodes THEN Abort("UnicodeEncodeError")
    ELSE \E ok \in BOOLEAN : IF ok THEN mpc' = next /\ UNCHANGED merror ELSE Abort("OSError")

\* A write whose failure is swallowed: the run goes on without the file.
MutSave(name, content, next) ==
    /\ mpc' = next
    /\ \E ok \in BOOLEAN :
          IF ok THEN /\ written' = Append(written, name)
                     /\ files' = (name :> [whole |-> TRUE, content |-> content]) @@ files
          ELSE UNCHANGED <<written, files>>
    /\ UNCHANGED merror

\* image.save(path, "PNG") or open(path, 'w') and f.write: the file is written whole; or
\* the open is refused, no file is created and an OSError leaves main; or the write fails
\* part-way, a truncated file stays on disk and an OSError leaves main.
Save(name, content, next) ==
    \E outcome \in {"whole", "refused", "truncated"} :
        CASE outcome = "whole" ->
                /\ written' = Append(written, name)
                /\ files' = (name :> [whole |-> TRUE, content |-> content]) @@ files
                /\ mpc' = next
                /\ UNCHANGED merror
          [] outcome = "refused" ->
                Abort("OSError") /\ UNCHANGED <<written, files>>
          [] outcome = "truncated" ->
                /\ written' = Append(written, name)
                /\ files' = (name :> [whole |-> FALSE, content |-> content]) @@ files
                /\ Abort("OSError")

\* print("🎨 Kuil App Icon Generator"); print("=" * 40)
Banner ==
    /\ mpc = "banner"
    /\ Say(TRUE, "makedirs")
    /\ UNCHANGED <<svg_file, stdout_encodes, written, files, light_icon, dark_icon,
                   tinted_icon, pvars>>

\* os.makedirs(OUTPUT_DIR, exist_ok=True)
MakeDirs ==
    /\ mpc = "makedirs"
    /\ \E ok \in BOOLEAN :
          IF ok THEN mpc' = "announce_light" /\ UNCHANGED merror ELSE Abort("OSError")
    /\ UNCHANGED <<svg_file, stdout_encodes, written, files, light_icon, dark_icon,
                   tinted_icon, pvars>>

\* print("\n📱 Generating Light Mode icon (1024x1024)...")
AnnounceLight ==
    /\ mpc = "announce_light"
    /\ Say(TRUE, "light")
    /\ UNCHANGED <<svg_file, stdout_encodes, written, files, light_icon, dark_icon,
                   tinted_icon, pvars>>

\* light_icon = create_kuil_icon_image(1024, KUIL_VIOLET_RGB)
GenerateLight ==
    /\ mpc = "light"
    /\ LET r == create_kuil_icon_image(svg_file, IconSize, KUIL_VIOLET_RGB)
       IN IF r.error = "none"
          THEN light_icon' = r.image /\ mpc' = "save_light" /\ UNCHANGED merror
          ELSE Abort(r.error) /\ UNCHANGED light_icon
    /\ UNCHANGED <<svg_file, stdout_encodes, written, files, dark_icon, tinted_icon, pvars>>

\* light_icon.save(light_path, "PNG")
SaveLight ==
    /\ mpc = "save_light"
    /\ Save("AppIcon.png", light_icon, "report_light")
    /\ UNCHANGED <<svg_file, stdout_encodes, light_icon, dark_icon, tinted_icon, pvars>>

\* print(f"   ✅ Saved: AppIcon.png"); print("\n🌙 Generating Dark Mode icon (1024x1024)...")
ReportLight ==
    /\ mpc = "report_light"
    /\ Say(TRUE, "dark")
    /\ UNCHANGED <<svg_file, stdout_encodes, written, files, light_icon, dark_icon,
                   tinted_icon, pvars>>

\* dark_icon = create_kuil_icon_image(1024, DARK_BG_RGB)
GenerateDark ==
    /\ mpc = "dark"
    /\ LET r == create_kuil_icon_image(svg_file, IconSize, DARK_BG_RGB)
       IN IF r.error = "none"
          THEN dark_icon' = r.image /\ mpc' = "save_dark" /\ UNCHANGED merror
          ELSE Abort(r.error) /\ UNCHANGED dark_icon
    /\ UNCHANGED <<svg_file, stdout_encodes, written, files, light_icon, tinted_icon, pvars>>

\* dark_icon.save(dark_path, "PNG")
SaveDark ==
    /\ mpc = "save_dark"
    /\ Save("AppIcon-Dark.png", dark_icon, "report_dark")
    /\ UNCHANGED <<svg_file, stdout_encodes, light_icon, dark_icon, tinted_icon, pvars>>

\* print(f"   ✅ Saved: AppIcon-Dark.png"); print("\n🎭 Generating Tinted icon (1024x1024)...")
ReportDark ==
    /\ mpc = "report_dark"
    /\ Say(TRUE, "tinted")
    /\ UNCHANGED <<svg_file, stdout_encodes, written, files, light_icon, dark_icon,
                   tinted_icon, pvars>>

\* tinted_icon = create_tinted_icon(1024)
GenerateTinted ==
    /\ mpc = "tinted"
    /\ LET r == create_tinted_icon(svg_file, IconSize)
       IN IF r.error = "none"
          THEN tinted_icon' = r.image /\ mpc' = "save_tinted" /\ UNCHANGED merror
          ELSE Abort(r.error) /\ UNCHANGED tinted_icon
    /\ UNCHANGED <<svg_file, stdout_encodes, written, files, light_icon, dark_icon, pvars>>

\* tinted_icon.save(tinted_path, "PNG")
SaveTinted ==
    /\ mpc = "save_tinted"
    /\ Save("AppIcon-Tinted.png", tinted_icon, "report_tinted")
    /\ UNCHANGED <<svg_file, stdout_encodes, light_icon, dark_icon, tinted_icon, pvars>>

\* print(f"   ✅ Saved: AppIcon-Tinted.png")
ReportTinted ==
    /\ mpc = "report_tinted"
    /\ Say(TRUE, "copy")
    /\ UNCHANGED <<svg_file, stdout_encodes, written, files, light_icon, dark_icon,
                   tinted_icon, pvars>>

\* light_icon.save(logo_copy_path, "PNG")
SaveCopy ==
    /\ mpc = "copy"
    /\ Save("AppIcon-1024.png", light_icon, "report_copy")
    /\ UNCHANGED <<svg_file, stdout_encodes, light_icon, dark_icon, tinted_icon, pvars>>

\* print(f"\n📁 Also saved copy: AppIcon-1024.png")
ReportCopy ==
    /\ mpc = "report_copy"
    /\ Say(TRUE, "manifest")
    /\ UNCHANGED <<svg_file, stdout_encodes, written, files, light_icon, dark_icon,
                   tinted_icon, pvars>>

\* with open(contents_path, 'w') as f: f.write(contents_json)
WriteManifest ==
    /\ mpc = "manifest"
    /\ Save("Contents.json", ContentsJson, "summary")
    /\ UNCHANGED <<svg_file, stdout_encodes, light_icon, dark_icon, tinted_icon, pvars>>

\* print(f"\n📄 Updated: Contents.json") and the closing prints; main returns.
Finish ==
    /\ mpc = "summary"
    /\ Say(TRUE, "done")
    /\ UNCHANGED <<svg_file, stdout_encodes, written, files, light_icon, dark_icon,
                   tinted_icon, pvars>>

NextMain ==
    \/ Banner
    \/ MakeDirs
    \/ AnnounceLight \/ GenerateLight \/ SaveLight \/ ReportLight
    \/ GenerateDark \/ SaveDark \/ ReportDark
    \/ GenerateTinted \/ SaveTinted \/ ReportTinted
    \/ SaveCopy \/ ReportCopy
    \/ WriteManifest
    \/ Finish

SpecMain == InitMain /\ [][NextMain]_vars

\* ------------------------------------------------------------------ properties of parse_path_to_points

\* The point (x, y) for integers x, y, and the point (a/64, b/64), untransformed.
P(x, y) == <<x * Unit, y * Unit>>
P64(a, b) == <<a * Pow10(FracDigits), b * Pow10(FracDigits)>>

IsIdentity == scale = <<1, 1>> /\ offset_x = 0 /\ offset_y = 0
Finished == pc \in {"returned", "raised"}

\* The numeric operands of a tokenized command group.
OperandsOf(c) == Numbers(c.args)
IsCmd(c, letter) == Upper(c.cmd) = letter

\* C1 (as claimed): "M0,0 C0,10 10,10 10,0" with scale 1 and offset (0,0) returns the
\* MoveTo point and 4 samples, and the sample at parameter 0.5 is (7.5, 7.5).
C1_SampleAsClaimed ==
    (pc = "returned" /\ path_data = CubicPath /\ IsIdentity)
        => (Len(result) = 5 /\ result[3] = P64(480, 480))

\* C1 (amended): the same call returns the MoveTo point (0,0) and exactly 4 samples, for the
\* parameters 0.25, 0.5, 0.75, 1.0 in that order: (1.5625, 5.625), (5, 7.5),
\* (8.4375, 5.625), (10, 0); the sample at parameter 0.5 is (5, 7.5).
C1_Samples ==
    (pc = "returned" /\ path_data = CubicPath /\ IsIdentity)
        => result = <<P(0, 0), P64(100, 360), P64(320, 480), P64(540, 360), P(10, 0)>>

C1_Witness ==
    /\ pc = "returned" /\ path_data = CubicPath /\ IsIdentity
    /\ Len(result) = 5 /\ result[3] = P64(320, 480)

HasClose(p) == \E i \in 1..Len(p) : p[i] \in {"Z", "z"}

\* C2 (as claimed): every accepted path that contains Z or z returns a non-empty polygon
\* whose first and last points are identical.
C2_ClosedAsClaimed ==
    (pc = "returned" /\ HasClose(path_data))
        => (result # <<>> /\ result[1] = result[Len(result)])

\* A command group that records at least one point when it is accepted.
Records(c) ==
    \/ IsCmd(c, "M")
    \/ IsCmd(c, "L") /\ Len(OperandsOf(c)) >= 2
    \/ IsCmd(c, "C") /\ Len(OperandsOf(c)) >= 6

\* C2 (amended): for every accepted path whose last command is a close-path (Z or z), the
\* returned polygon is non-empty exactly when an earlier group recorded a point, and then
\* its first and last points are identical.
C2_ClosedLast ==
    (pc = "returned" /\ commands # <<>> /\ IsCmd(commands[Len(commands)], "Z"))
        => /\ result # <<>> <=> \E j \in 1..(Len(commands) - 1) : Records(commands[j])
           /\ result # <<>> => result[1] = result[Len(result)]

C2_Witness ==
    /\ pc = "returned" /\ commands # <<>> /\ IsCmd(commands[Len(commands)], "Z")
    /\ Len(result) >= 3 /\ result[2] # result[1] /\ result[1] = result[Len(result)]

\* The characters of an operand text, and the letters of commands with no handler at all.
OperandChars == Digits \cup {",", " ", "-", "."}
UnsupportedLetters == {"Q", "A", "S", "T", "q", "a", "s", "t"}

RECURSIVE OperandsEnd(_, _)
OperandsEnd(s, i) ==
    IF i <= Len(s) /\ s[i] \in OperandChars THEN OperandsEnd(s, i + 1) ELSE i - 1

Without(s, i, j) == SubSeq(s, 1, i - 1) \o SubSeq(s, j + 1, Len(s))

\* C3: an unsupported command group (letter and operands) between two supported groups is
\* ignored: whenever the path without the group is accepted, the path with it is accepted
\* and returns the same polygon.
C3_UnsupportedIgnored ==
    Finished =>
        \A i \in 1..Len(path_data) :
            LET j == OperandsEnd(path_data, i + 1)
                without == ParsePathToPoints(Without(path_data, i, j), scale, offset_x, offset_y)
            IN (/\ path_data[i] \in UnsupportedLetters
                /\ \E h \in 1..(i - 1) : path_data[h] \in CommandLetters
                /\ j < Len(path_data) /\ path_data[j + 1] \in CommandLetters
                /\ without.error = "none")
               => (pc = "returned" /\ result = without.points)

\* Tokenization on the six letters the interpretation has a branch for.
HandledLetters == CommandLetters \cup {"H", "V", "h", "v"}

RECURSIVE HandledEnd(_, _)
HandledEnd(s, i) ==
    IF i <= Len(s) /\ s[i] \notin HandledLetters THEN HandledEnd(s, i + 1) ELSE i - 1

RECURSIVE HandledGroups(_, _)
HandledGroups(s, i) ==
    IF i > Len(s) THEN <<>>
    ELSE IF s[i] \in HandledLetters
         THEN LET e == HandledEnd(s, i + 1)
              IN <<[cmd |-> s[i], args |-> SubSeq(s, i + 1, e)]>> \o HandledGroups(s, e + 1)
         ELSE HandledGroups(s, i + 1)

\* C4: an H group moves only x and a V group only y, once per operand, each update
\* recording the updated current point: the call returns what the six branches give on the
\* groups of M, L, C, Z, H and V, and "M0,0 H10 V10" returns [(0,0), (10,0), (10,10)].
C4_HorizontalVertical ==
    Finished =>
        LET want == RunCommands(Locals(<<>>, 0, 0, "none"), HandledGroups(path_data, 1), 1,
                                scale, offset_x, offset_y)
        IN /\ want.error = "none" => (pc = "returned" /\ result = want.points)
           /\ (path_data = HVPath /\ IsIdentity)
                  => (pc = "returned" /\ result = <<P(0, 0), P(10, 0), P(10, 10)>>)

\* The operand pairs of the groups j..Len(cs), in source order, as points.
RECURSIVE PairPoints(_, _)
PairPoints(cs, j) ==
    IF j > Len(cs) THEN <<>>
    ELSE LET n == OperandsOf(cs[j])
         IN [h \in 1..(Len(n) \div 2) |-> <<n[2 * h - 1], n[2 * h]>>] \o PairPoints(cs, j + 1)

\* A path made of one M with two operands, then L groups with operand pairs, then one Z.
MoveLinesClose ==
    /\ \A i \in 1..Len(path_data) : path_data[i] \in {"M", "L", "Z"} \cup OperandChars
    /\ Len(commands) >= 2
    /\ commands[1].cmd = "M" /\ Len(OperandsOf(commands[1])) = 2
    /\ commands[Len(commands)].cmd = "Z"
    /\ \A j \in 2..(Len(commands) - 1) :
           commands[j].cmd = "L" /\ Len(OperandsOf(commands[j])) % 2 = 0

\* C5: with scale 1 and offset 0, a path of one two-operand M, L groups of operand pairs
\* and a final Z returns the M point, one point per L pair in source order, and a copy of
\* the first point; "M0,0 L10,0 L10,10 Z" returns [(0,0), (10,0), (10,10), (0,0)].
C5_MoveLinesClose ==
    /\ (Finished /\ IsIdentity /\ MoveLinesClose)
           => LET first == <<OperandsOf(commands[1])[1], OperandsOf(commands[1])[2]>>
              IN /\ pc = "returned"
                 /\ result = <<first>> \o PairPoints(SubSeq(commands, 2, Len(commands) - 1), 1)
                                 \o <<first>>
    /\ (Finished /\ IsIdentity /\ path_data = TrianglePath)
           => (pc = "returned" /\ result = <<P(0, 0), P(10, 0), P(10, 10), P(0, 0)>>)

C5_Witness ==
    /\ pc = "returned" /\ IsIdentity /\ path_data = TrianglePath /\ MoveLinesClose
    /\ result = <<P(0, 0), P(10, 0), P(10, 10), P(0, 0)>>

\* C6: the step that processes a Z group appends exactly one point, equal to the first
\* element, when points is non-empty, leaving the earlier points as they were; when points
\* is empty it leaves it empty; it raises no error.
C6_ClosePathStep ==
    [][(pc = "loop" /\ k <= Len(commands) /\ IsCmd(commands[k], "Z"))
          => /\ pc' = "loop" /\ error' = "none" /\ k' = k + 1
             /\ points # <<>> => points' = Append(points, points[1])
             /\ points = <<>> => points' = <<>>]_vars

C6_Witness ==
    /\ pc = "loop" /\ k > 1 /\ IsCmd(commands[k - 1], "Z")
    /\ Len(points) >= 3 /\ points[2] # points[1] /\ points[Len(points)] = points[1]

\* C7: for every accepted path and every scale and offset, the call returns the pointwise
\* image under x*scale+offset_x, y*scale+offset_y of what the call with scale 1 and offset
\* (0,0) returns; with scale 2 and offset (5,5), (0,0) maps to (5,5) and (10,10) to (25,25).
C7_AffineImage ==
    Finished =>
        LET base == ParsePathToPoints(path_data, <<1, 1>>, 0, 0)
        IN /\ pc = "returned" <=> base.error = "none"
           /\ pc = "returned" =>
                /\ Len(result) = Len(base.points)
                /\ \A j \in 1..Len(result) :
                     /\ result[j] = <<base.points[j][1] * scale[1] + offset_x * Unit * scale[2],
                                      base.points[j][2] * scale[1] + offset_y * Unit * scale[2]>>
                     /\ (scale = <<2, 1>> /\ offset_x = 5 /\ offset_y = 5)
                           => /\ base.points[j] = P(0, 0) => result[j] = P(5, 5)
                              /\ base.points[j] = P(10, 10) => result[j] = P(25, 25)

C7_Witness ==
    /\ pc = "returned" /\ scale = <<2, 1>> /\ offset_x = 5 /\ offset_y = 5
    /\ \E j \in 1..Len(commands) : IsCmd(commands[j], "C") /\ Len(OperandsOf(commands[j])) >= 6
    /\ IsCmd(commands[Len(commands)], "Z")
    /\ \E j \in 1..Len(result) : result[j] = P(25, 25)
    /\ result[Len(result)] = P(5, 5)

\* An M group with fewer than two operands, or an L group with an odd number of them.
Malformed(c) ==
    \/ IsCmd(c, "M") /\ Len(OperandsOf(c)) < 2
    \/ IsCmd(c, "L") /\ Len(OperandsOf(c)) % 2 = 1

CommandLetterCount(s) == Cardinality({i \in 1..Len(s) : s[i] \in CommandLetters})

\* C10: the call returns a polygon exactly when no tokenized M group has fewer than two
\* operands and no tokenized L group an odd number; otherwise it ends in an error and
\* returns nothing.  An M group uses its first two operands only; a C group never raises,
\* records 4 points per complete sextet, and operands short of a sextet record nothing and
\* leave the current point as it was.
C10_Acceptance ==
    /\ [](Finished =>
            /\ Len(commands) = CommandLetterCount(path_data)
            /\ pc = "raised" <=> \E j \in 1..Len(commands) : Malformed(commands[j])
            /\ pc = "raised" => (result = None /\ error = "IndexError")
            /\ pc = "returned" => (result = points /\ error = "none"))
    /\ [][(pc = "loop" /\ k <= Len(commands))
            => LET c == commands[k]
                   n == OperandsOf(c)
                   full == Len(n) \div 6
               IN /\ pc' = "raised" <=> Malformed(c)
                  /\ (IsCmd(c, "M") /\ Len(n) >= 2)
                        => /\ points' = Append(points, TransformPoint(n[1], n[2], scale,
                                                                      offset_x, offset_y))
                           /\ current_x' = n[1] /\ current_y' = n[2]
                  /\ IsCmd(c, "C")
                        => /\ Len(points') = Len(points) + 4 * full
                           /\ SubSeq(points', 1, Len(points)) = points
                           /\ full = 0 => UNCHANGED <<current_x, current_y>>
                           /\ full > 0 => (current_x' = n[6 * full - 1]
                                           /\ current_y' = n[6 * full])]_vars

C10_Witness ==
    /\ pc = "raised" /\ IsCmd(commands[k], "L") /\ k > 1
    /\ \E j \in 1..(k - 1) : IsCmd(commands[j], "C") /\ Len(OperandsOf(commands[j])) \in 1..5
    /\ \E j \in 1..(k - 1) : IsCmd(commands[j], "M") /\ Len(OperandsOf(commands[j])) > 2

\* ------------------------------------------------------------------ properties of main

\* The text holds d=", then at least one character other than a double quote, then a
\* double quote.
HasPathAttribute(text) ==
    \E i \in 1..Len(text) : \E j \in (i + 4)..Len(text) :
        /\ text[i] = "d" /\ text[i + 1] = "=" /\ text[i + 2] = "\"" /\ text[j] = "\""
        /\ \A h \in (i + 3)..(j - 1) : text[h] # "\""

NoPathData == svg_file = Missing \/ ~HasPathAttribute(svg_file)

\* C8: when the SVG file is missing or its text holds no d="..." attribute, the run never
\* gets past the first rendering pass and never reaches success, no file has been created
\* when it aborts, and the first rendering pass can only end in an unhandled error
\* (FileNotFoundError for the missing file, TypeError for the missing attribute).
C8_NoPathData ==
    /\ [](NoPathData =>
            /\ mpc \in {"banner", "makedirs", "announce_light", "light", "aborted"}
            /\ written = <<>> /\ DOMAIN files = {}
            /\ mpc = "aborted" =>
                  merror \in {"UnicodeEncodeError", "OSError", "FileNotFoundError", "TypeError"})
    /\ [][(NoPathData /\ mpc = "light")
            => /\ mpc' = "aborted"
               /\ merror' = IF svg_file = Missing THEN "FileNotFoundError" ELSE "TypeError"]_vars

C8_Witness ==
    /\ svg_file # Missing /\ ~HasPathAttribute(svg_file)
    /\ \E i \in 1..Len(svg_file) : svg_file[i] = "="
    /\ mpc = "aborted" /\ merror = "TypeError" /\ written = <<>>

OutputOrder ==
    <<"AppIcon.png", "AppIcon-Dark.png", "AppIcon-Tinted.png", "AppIcon-1024.png",
      "Contents.json">>

\* C9: the files a run has created are always a prefix of AppIcon.png, AppIcon-Dark.png,
\* AppIcon-Tinted.png, AppIcon-1024.png, Contents.json, so Contents.json comes only after
\* the four images, whole; a step that raises ends the run there and then, and only the
\* file being written at that step can be left truncated; a run that reaches success has
\* written all five whole, and the manifest holds exactly three image entries, the same
\* whatever the SVG input.
C9_OutputOrder ==
    /\ [](/\ Len(written) <= Len(OutputOrder)
          /\ written = SubSeq(OutputOrder, 1, Len(written))
          /\ DOMAIN files = {written[i] : i \in 1..Len(written)}
          /\ mpc = "aborted" <=> merror # "none"
          /\ \A i \in 1..Len(written) :
                ~files[written[i]].whole => (i = Len(written) /\ mpc = "aborted")
          /\ mpc = "done" =>
                /\ written = OutputOrder
                /\ \A i \in 1..Len(written) : files[written[i]].whole
                /\ files["Contents.json"].content = ContentsJson
                /\ Len(files["Contents.json"].content.images) = 3
                /\ \A i \in 1..3 :
                      files["Contents.json"].content.images[i].filename = OutputOrder[i])
    /\ [][/\ mpc # "aborted"
          /\ merror' # "none" => mpc' = "aborted"
          /\ written' # written => written' = Append(written, OutputOrder[Len(written) + 1])]_vars

C9_Witness ==
    /\ mpc = "done" /\ written = OutputOrder /\ merror = "none"
    /\ Len(files["Contents.json"].content.images) = 3
    /\ files["AppIcon.png"].content.polygon # <<>>
    /\ files["AppIcon-1024.png"] = files["AppIcon.png"]

====
